---- MODULE Spec2Model ----
(***************************************************************************)
(* Content-generation pipeline of the TAP backend: the generate_content    *)
(* and delete_lecture request handlers (app/api/v1/lectures.py), the       *)
(* LangGraph workflow (app/ai/graph.py), the retrying model client         *)
(* (app/ai/llm.py) and the vector store's add, search, delete and naming   *)
(* of collections (app/services/vector_store.py).                          *)
(* The ingestion side is modelled as well: chunk_text                      *)
(* (app/services/document_processor.py), upload_material                   *)
(* (app/api/v1/materials.py), transcribe_lecture (app/api/v1/lectures.py)  *)
(* and the edit request update_content (app/api/v1/content.py).            *)
(*                                                                         *)
(* Every await in the code is a suspension point, so a handler is modelled *)
(* as a process whose steps are the code between two awaits.  The record   *)
(* store (MongoDB through Beanie), the language model and the Chroma index *)
(* are external: their answers are drawn nondeterministically.             *)
(***************************************************************************)
EXTENDS Integers, Sequences, FiniteSets, TLC

VARIABLES lectures,   \* Lecture collection: lecture id -> document
          contents,   \* GeneratedContent collection, in insertion order
          nruns,      \* number of pipeline runs started so far
          pc,         \* per handler: where it is suspended
          req,        \* per handler: the GenerateRequest being served
          run,        \* per handler: number of the run it started
          lec,        \* per handler: the Lecture object loaded by generate_content
          nlec,       \* per handler: the Lecture object loaded by save_content_node
          st,         \* per handler: the ContentGenerationState of the run
          attempts,   \* per handler: attempts made by the generate_json call in progress
          calls,      \* per handler: how each stage's generate_json call ended in this run
          search,     \* per handler: what search_documents answered in this run
          trace,      \* per handler: graph nodes entered in this run, in order
          resp,       \* per handler: outcome of the last request
          collections,\* Chroma: collection name -> documents, in insertion order
          last,       \* what the latest vector store call did
          nops,       \* number of add_documents calls made so far
          deleted,    \* collection name -> ids deleted from it and not added since
          named,      \* course id -> the collection name its calls were given
          chunking,   \* the chunk_text call in progress: arguments and loop variables
          materials,  \* Material collection, in insertion order
          upload,     \* the upload_material request being served
          edit,       \* the update_content request being served
          transcribing \* the transcribe_lecture request being served

vs == <<collections, last, nops, deleted, named>>

ing == <<chunking, materials, upload, edit, transcribing>>

vars == <<lectures, contents, nruns, pc, req, run, lec, nlec, st, attempts,
          calls, search, trace, resp, collections, last, nops, deleted,
          named, chunking, materials, upload, edit, transcribing>>

pipeVars == <<lectures, contents, nruns, pc, req, run, lec, nlec, st, attempts,
              calls, search, trace, resp>>

----------------------------------------------------------------------------
(* Bounds of the model *)

MaxRuns == 2          \* pipeline runs started in one behaviour
MaxOps == 2           \* add_documents calls made in one behaviour
MaxText == 7          \* characters of a text given to chunk_text
MaxVersion == 2       \* highest version an edit is made from
MaxUploads == 2       \* materials uploaded in one behaviour

Procs == {"p1", "p2"}
LectureIds == {"L1"}

----------------------------------------------------------------------------
(* Values *)

None == "None"

ContentTypes == {"notes", "assignment", "flashcards"}

NOT_STARTED == "not_started"
GENERATING == "generating"
COMPLETED == "completed"
FAILED == "failed"

PENDING == "pending"
TRANSCRIBING == "transcribing"

\* What the model can answer: a non-empty JSON object, the empty object {},
\* the JSON literal null, or text that is not JSON.
ModelOutputs == {"object", "empty_object", "null", "malformed"}

\* A search result's document: a chunk text, or None (record without text).
DocValues == {"chunk", None}

Sentinel == <<"No additional context available.">>
Separator == "\n\n---\n\n"

Lecture(transcribed) ==
    [present |-> TRUE, transcribed |-> transcribed,
     transcription_status |-> IF transcribed THEN COMPLETED ELSE PENDING,
     generation_status |-> NOT_STARTED, generation_error |-> None,
     generated_at |-> 0, course_id |-> <<"d">>, embedding_ids |-> <<>>]

NoLecture ==
    [present |-> FALSE, transcribed |-> FALSE, transcription_status |-> PENDING,
     generation_status |-> NOT_STARTED, generation_error |-> None,
     generated_at |-> 0, course_id |-> <<"d">>, embedding_ids |-> <<>>]

\* A GeneratedContent document; "run" stands for what tells the documents of
\* two runs apart (the generated id and the metadata's generated_at).
GeneratedContent(lecture_id, content_type, content, r) ==
    [lecture_id |-> lecture_id, content_type |-> content_type,
     content |-> content, version |-> 1, is_edited |-> FALSE, run |-> r]

NoRequest == [lecture_id |-> "L1", content_types |-> {}, force |-> FALSE]

NoCalls == [t \in ContentTypes |-> "none"]
NoSearch == [raised |-> FALSE, results |-> <<>>]

initial_state(lecture_id, content_types) ==
    [lecture_id |-> lecture_id, content_types |-> content_types,
     context |-> <<>>, context_documents |-> <<>>,
     notes |-> None, assignment |-> None, flashcards |-> None,
     error |-> None, completed_types |-> <<>>]

----------------------------------------------------------------------------
(* Pure helpers *)

\* Python truthiness of a slot value: None and {} are falsy.
Truthy(v) == v = "object"

\* JsonOutputParser.parse on the cleaned model output.
ParseRaises(out) == out = "malformed"
Parse(out) == IF out = "null" THEN None ELSE out

RECURSIVE Join(_)
Join(parts) ==
    IF Len(parts) = 0 THEN <<>>
    ELSE IF Len(parts) = 1 THEN <<parts[1]>>
    ELSE <<parts[1], Separator>> \o Join(Tail(parts))

RECURSIVE context_parts(_)
context_parts(results) ==
    IF Len(results) = 0 THEN <<>>
    ELSE IF Head(results) # None
         THEN <<Head(results)>> \o context_parts(Tail(results))
         ELSE context_parts(Tail(results))

\* the result lists search_documents is taken to return (documents only)
ResultLists == {<<>>, <<None>>, <<"chunk", None, "chunk">>}

ErrorOf(t) ==
    CASE t = "notes" -> "Notes generation failed"
      [] t = "assignment" -> "Assignment generation failed"
      [] t = "flashcards" -> "Flashcards generation failed"

SaveError == "Failed to save content"

\* tenacity: stop_after_attempt(3)
StopAfterAttempt == 3

ShouldRetry_OneMore(attempt_number) == attempt_number <= StopAfterAttempt

\* the retry decorator calls the function again unless the stop condition holds
ShouldRetry(attempt_number) == attempt_number < StopAfterAttempt

----------------------------------------------------------------------------
(* The workflow graph *)

END == "END"

Edge_SkipsAssignment(node) ==
    CASE node = "retrieve_context" -> "generate_notes"
      [] node = "generate_notes" -> "generate_flashcards"
      [] node = "generate_assignment" -> "generate_flashcards"
      [] node = "generate_flashcards" -> "save_content"
      [] node = "save_content" -> END

Edge(node) ==
    CASE node = "retrieve_context" -> "generate_notes"
      [] node = "generate_notes" -> "generate_assignment"
      [] node = "generate_assignment" -> "generate_flashcards"
      [] node = "generate_flashcards" -> "save_content"
      [] node = "save_content" -> END

\* the node a handler position belongs to
NodeOf(position) ==
    IF position \in {"save_content", "save_assignment", "save_flashcards",
                     "save_lecture_get", "save_lecture_save"}
    THEN "save_content" ELSE position

TypeOfNode(node) ==
    CASE node = "generate_notes" -> "notes"
      [] node = "generate_assignment" -> "assignment"
      [] node = "generate_flashcards" -> "flashcards"

\* leave the node the handler is in along the graph's edge
Advance(p) ==
    LET next == Edge(NodeOf(pc[p])) IN
    /\ pc' = [pc EXCEPT ![p] = next]
    /\ trace' = [trace EXCEPT ![p] = IF next = END THEN @ ELSE Append(@, next)]

----------------------------------------------------------------------------
(* The vector store: values *)

\* course ids are strings, written as sequences of characters
CourseIds == {<<"c", "-", "1">>, <<"c", "_", "1">>, <<"d">>}

Texts == {"alpha", "beta"}

\* the argument lists the callers are taken to pass
DocLists == {<<>>, <<"alpha">>, <<"beta", "alpha">>, <<"alpha", "beta", "alpha">>}
IdLists == {<<>>, <<"id1">>, <<"id1", "id2">>, <<"id2", "id3">>,
            <<"id1", "id2", "id3">>, <<"id1", "id1">>}
MetaLists == {<<>>, <<"m">>, <<"m", "m">>, <<"m", "m", "m">>}

NameLimit == 50

NoCall == [op |-> None, lens |-> <<0, 0, 0>>, raised |-> FALSE,
           embedded |-> FALSE, created |-> FALSE, written |-> 0,
           course_id |-> <<>>, documents |-> <<>>, ids |-> <<>>,
           query |-> None, n_results |-> 0, results |-> <<>>]

\* SentenceTransformer.encode on one text: a fixed vector per text
Encode(text) == IF text = "alpha" THEN <<1, 0>> ELSE <<0, 1>>

generate_embeddings(texts) == [i \in 1..Len(texts) |-> Encode(texts[i])]

Take(seq, n) == SubSeq(seq, 1, IF Len(seq) < n THEN Len(seq) ELSE n)

get_collection_name_Cut2(course_id) ==
    <<"course_">> \o
    Take([i \in 1..Len(course_id) |->
             IF course_id[i] = "-" THEN "_" ELSE course_id[i]], 2)

\* f"course_{course_id.replace('-', '_')[:50]}"
get_collection_name(course_id) ==
    <<"course_">> \o
    Take([i \in 1..Len(course_id) |->
             IF course_id[i] = "-" THEN "_" ELSE course_id[i]], NameLimit)

Range(seq) == {seq[i] : i \in 1..Len(seq)}

IdsOf(col) == {col[i].id : i \in 1..Len(col)}

\* collection.add validates its arguments before it writes anything
AddRejects(documents, embeddings, metadatas, ids) ==
    \/ Len(ids) = 0
    \/ Len(documents) # Len(ids)
    \/ Len(embeddings) # Len(ids)
    \/ Len(metadatas) # Len(ids)
    \/ \E i, j \in 1..Len(ids) : i # j /\ ids[i] = ids[j]

\* collection.add: the records whose id the collection already holds are left out
RECURSIVE AddRecords(_, _, _, _, _)
AddRecords(col, documents, embeddings, metadatas, ids) ==
    IF Len(ids) = 0 THEN col
    ELSE LET rest == AddRecords(
                 IF Head(ids) \in IdsOf(col) THEN col
                 ELSE Append(col, [id |-> Head(ids), document |-> Head(documents),
                                   metadata |-> Head(metadatas),
                                   embedding |-> Head(embeddings)]),
                 Tail(documents), Tail(embeddings), Tail(metadatas), Tail(ids))
         IN rest

----------------------------------------------------------------------------
(* Ingestion: values *)

\* no chunk_text call has been made
NoChunking == [text |-> <<>>, chunk_size |-> 0, overlap |-> 0, start |-> 0,
               chunks |-> <<>>, windows |-> <<>>, returned |-> FALSE]

PROCESSING == "processing"

\* A Material document as upload_material builds it
Material(course_id) ==
    [course_id |-> course_id, processing_status |-> PROCESSING,
     processing_error |-> None, chunks |-> <<>>, embedding_ids |-> <<>>]

\* no upload_material request is being served; "raised" tells what raised in
\* the try block of the latest request, "unsaved" that the save of its
\* except clause raised
NoUpload == [position |-> "idle", material |-> 0, doc |-> Material(<<"d">>),
             raised |-> None, unsaved |-> FALSE, resp |-> None]

NoContent == GeneratedContent("L1", "notes", None, 0)

\* no update_content request is being served
NoEdit == [position |-> "idle", index |-> 0, content |-> NoContent, resp |-> None]

\* no transcribe_lecture request is being served
NoTranscribing == [position |-> "idle", lecture_id |-> "L1", lecture |-> NoLecture,
                   resp |-> None]

----------------------------------------------------------------------------
Init ==
    /\ lectures \in {[l \in LectureIds |-> Lecture(t)] : t \in BOOLEAN}
    /\ contents = <<>>
    /\ nruns = 0
    /\ pc = [p \in Procs |-> "idle"]
    /\ req = [p \in Procs |-> NoRequest]
    /\ run = [p \in Procs |-> 0]
    /\ lec = [p \in Procs |-> NoLecture]
    /\ nlec = [p \in Procs |-> NoLecture]
    /\ st = [p \in Procs |-> initial_state("L1", {})]
    /\ attempts = [p \in Procs |-> 0]
    /\ calls = [p \in Procs |-> NoCalls]
    /\ search = [p \in Procs |-> NoSearch]
    /\ trace = [p \in Procs |-> <<>>]
    /\ resp = [p \in Procs |-> None]
    /\ collections = <<>>
    /\ last = NoCall
    /\ nops = 0
    /\ deleted = <<>>
    /\ named = <<>>
    /\ chunking = NoChunking
    /\ materials = <<>>
    /\ upload = NoUpload
    /\ edit = NoEdit
    /\ transcribing = NoTranscribing

----------------------------------------------------------------------------
(* generate_content, up to the call of the workflow *)

AlreadyGenerated_FlagInverted(lecture, force) ==
    lecture.generation_status = COMPLETED /\ force

\* "if lecture.generation_status == COMPLETED and not request.force"
AlreadyGenerated(lecture, force) ==
    lecture.generation_status = COMPLETED /\ ~force

\* Lecture.get, the request checks, and the early returns.
GenerateGet(p) ==
    /\ pc[p] = "idle"
    /\ \E l \in LectureIds, types \in SUBSET ContentTypes,
          force \in BOOLEAN, owner \in BOOLEAN :
          LET lecture == lectures[l] IN
          IF ~lecture.present THEN
              /\ resp' = [resp EXCEPT ![p] = "404"]
              /\ UNCHANGED <<lectures, contents, nruns, pc, req, run, lec, nlec,
                             st, attempts, calls, search, trace>>
          ELSE IF ~owner THEN
              /\ resp' = [resp EXCEPT ![p] = "403"]
              /\ UNCHANGED <<lectures, contents, nruns, pc, req, run, lec, nlec,
                             st, attempts, calls, search, trace>>
          ELSE IF ~lecture.transcribed THEN
              /\ resp' = [resp EXCEPT ![p] = "400"]
              /\ UNCHANGED <<lectures, contents, nruns, pc, req, run, lec, nlec,
                             st, attempts, calls, search, trace>>
          ELSE IF AlreadyGenerated(lecture, force) THEN
              /\ resp' = [resp EXCEPT ![p] = "already_generated"]
              /\ UNCHANGED <<lectures, contents, nruns, pc, req, run, lec, nlec,
                             st, attempts, calls, search, trace>>
          ELSE
              /\ nruns < MaxRuns
              /\ nruns' = nruns + 1
              /\ run' = [run EXCEPT ![p] = nruns + 1]
              /\ req' = [req EXCEPT ![p] = [lecture_id |-> l,
                                            content_types |-> types,
                                            force |-> force]]
              /\ lec' = [lec EXCEPT ![p] = lecture]
              /\ resp' = [resp EXCEPT ![p] = None]
              /\ pc' = [pc EXCEPT ![p] = "set_generating"]
              /\ UNCHANGED <<lectures, contents, nlec, st, attempts, calls,
                             search, trace>>
    /\ UNCHANGED <<vs, ing>>

\* lecture.generation_status = GENERATING; lecture.save(); then
\* run_content_generation builds the initial state and enters the graph.
GenerateSetStatus(p) ==
    /\ pc[p] = "set_generating"
    /\ LET lecture == [lec[p] EXCEPT !.generation_status = GENERATING] IN
       /\ lec' = [lec EXCEPT ![p] = lecture]
       /\ lectures' = [lectures EXCEPT ![req[p].lecture_id] = lecture]
    /\ st' = [st EXCEPT ![p] = initial_state(req[p].lecture_id, req[p].content_types)]
    /\ pc' = [pc EXCEPT ![p] = "retrieve_context"]
    /\ trace' = [trace EXCEPT ![p] = <<"retrieve_context">>]
    \* request.force is not read after the check
    /\ req' = [req EXCEPT ![p].force = FALSE]
    /\ UNCHANGED <<contents, nruns, run, nlec, attempts, calls, search, resp, vs, ing>>

----------------------------------------------------------------------------
(* The graph's nodes *)

\* the try branch: the results are joined into the context
retrieve_returned(s, results) ==
    LET parts == context_parts(results) IN
    [s EXCEPT !.context = IF Len(parts) > 0 THEN Join(parts) ELSE Sentinel,
              !.context_documents = results]

retrieve_except_RecordsError(s) ==
    [s EXCEPT !.error = "Context retrieval failed"]

\* the except branch
retrieve_except(s) ==
    [s EXCEPT !.context = Sentinel, !.context_documents = <<>>]

\* search_documents either raises or returns a list of results
retrieve_context_node(p) ==
    /\ pc[p] = "retrieve_context"
    /\ \E raised \in BOOLEAN, results \in ResultLists :
          /\ raised => results = <<>>
          /\ search' = [search EXCEPT ![p] = [raised |-> raised, results |-> results]]
          /\ st' = [st EXCEPT ![p] = IF raised THEN retrieve_except(@)
                                     ELSE retrieve_returned(@, results)]
    /\ Advance(p)
    /\ UNCHANGED <<lectures, contents, nruns, req, run, lec, nlec, attempts,
                   calls, resp, vs, ing>>

Requested_StopsOnError(s, t) == t \in s.content_types /\ s.error = None

Requested_Always(s, t) == TRUE

\* "if <type> not in state['content_types']: return state"
Requested(s, t) == t \in s.content_types

NodeReturned_ClearsError(s, t, value) ==
    [s EXCEPT ![t] = value, !.completed_types = Append(@, t), !.error = None]

\* the try branch of a generation node, once generate_json has returned
NodeReturned(s, t, value) ==
    [s EXCEPT ![t] = value, !.completed_types = Append(@, t)]

NodeExcept_MarksCompleted(s, t) ==
    [s EXCEPT !.error = ErrorOf(t), !.completed_types = Append(@, t)]

\* the except branch of a generation node
NodeExcept(s, t) == [s EXCEPT !.error = ErrorOf(t)]

\* A generation node: skipped when its type was not requested; otherwise one
\* step per attempt of the generate_json call it awaits.
GenerateNode(p, t) ==
    /\ pc[p] \in {"generate_notes", "generate_assignment", "generate_flashcards"}
    /\ t = TypeOfNode(pc[p])
    /\ IF ~Requested(st[p], t) THEN
          /\ Advance(p)
          /\ UNCHANGED <<st, attempts, calls>>
       ELSE
          \E raised \in BOOLEAN, out \in ModelOutputs :
             /\ raised => out = "malformed"
             /\ IF ~raised /\ ~ParseRaises(out) THEN
                   \* generate_json returns; the node stores the result
                   /\ st' = [st EXCEPT ![p] = NodeReturned(@, t, Parse(out))]
                   /\ calls' = [calls EXCEPT ![p][t] = "returned"]
                   /\ attempts' = [attempts EXCEPT ![p] = 0]
                   /\ Advance(p)
                ELSE IF ShouldRetry(attempts[p] + 1) THEN
                   \* the retry decorator calls generate_json again
                   /\ attempts' = [attempts EXCEPT ![p] = @ + 1]
                   /\ UNCHANGED <<st, calls, pc, trace>>
                ELSE
                   \* retries exhausted: generate_json raises, the node records it
                   /\ st' = [st EXCEPT ![p] = NodeExcept(@, t)]
                   /\ calls' = [calls EXCEPT ![p][t] = "raised"]
                   /\ attempts' = [attempts EXCEPT ![p] = 0]
                   /\ Advance(p)
    /\ UNCHANGED <<lectures, contents, nruns, req, run, lec, nlec, search, resp, vs, ing>>

generate_notes_node(p) == GenerateNode(p, "notes")
generate_assignment_node(p) == GenerateNode(p, "assignment")
generate_flashcards_node(p) == GenerateNode(p, "flashcards")

----------------------------------------------------------------------------
(* save_content_node: one step per awaited store operation.  Any of them may
   raise; the node's except clause then records the error and returns. *)

SaveFails_RollsBack(p) ==
    /\ st' = [st EXCEPT ![p].error = SaveError]
    /\ Advance(p)
    /\ contents' = SelectSeq(contents, LAMBDA c : c.run # run[p])
    /\ UNCHANGED <<lectures, nlec>>

\* "except Exception as e: return {**state, 'error': 'Failed to save content'}"
SaveFails(p) ==
    /\ st' = [st EXCEPT ![p].error = SaveError]
    /\ Advance(p)
    /\ UNCHANGED <<lectures, contents, nlec>>

\* "if state.get(slot): GeneratedContent(...).insert()"
SaveSlot(p, position, t, next) ==
    /\ pc[p] = position
    /\ IF Truthy(st[p][t]) THEN
          \E fails \in BOOLEAN :
             IF fails THEN SaveFails(p)
             ELSE /\ contents' = Append(contents,
                        GeneratedContent(st[p].lecture_id, t, st[p][t], run[p]))
                  /\ pc' = [pc EXCEPT ![p] = next]
                  /\ UNCHANGED <<lectures, nlec, st, trace>>
       ELSE
          /\ pc' = [pc EXCEPT ![p] = next]
          /\ UNCHANGED <<lectures, contents, nlec, st, trace>>
    /\ UNCHANGED <<nruns, req, run, lec, attempts, calls, search, resp, vs, ing>>

SaveNotes(p) == SaveSlot(p, "save_content", "notes", "save_assignment")
SaveAssignment(p) == SaveSlot(p, "save_assignment", "assignment", "save_flashcards")
SaveFlashcards(p) == SaveSlot(p, "save_flashcards", "flashcards", "save_lecture_get")

\* lecture = await Lecture.get(state["lecture_id"]); "if lecture:"
SaveLectureGet(p) ==
    /\ pc[p] = "save_lecture_get"
    /\ \E fails \in BOOLEAN :
          IF fails THEN SaveFails(p)
          ELSE LET lecture == lectures[st[p].lecture_id] IN
               IF lecture.present
               THEN /\ nlec' = [nlec EXCEPT ![p] = lecture]
                    /\ pc' = [pc EXCEPT ![p] = "save_lecture_save"]
                    /\ UNCHANGED <<lectures, contents, st, trace>>
               ELSE /\ Advance(p)
                    /\ UNCHANGED <<lectures, contents, nlec, st>>
    /\ UNCHANGED <<nruns, req, run, lec, attempts, calls, search, resp, vs, ing>>

\* lecture.generation_status = COMPLETED; lecture.generated_at = now; save()
SaveLectureSave(p) ==
    /\ pc[p] = "save_lecture_save"
    /\ \E fails \in BOOLEAN :
          IF fails THEN SaveFails(p)
          ELSE LET lecture == [nlec[p] EXCEPT !.generation_status = COMPLETED,
                                              !.generated_at = run[p]] IN
               /\ nlec' = [nlec EXCEPT ![p] = lecture]
               /\ lectures' = [lectures EXCEPT ![st[p].lecture_id] = lecture]
               /\ Advance(p)
               /\ UNCHANGED <<contents, st>>
    /\ UNCHANGED <<nruns, req, run, lec, attempts, calls, search, resp, vs, ing>>

save_content_node(p) ==
    \/ SaveNotes(p)
    \/ SaveAssignment(p)
    \/ SaveFlashcards(p)
    \/ SaveLectureGet(p)
    \/ SaveLectureSave(p)

----------------------------------------------------------------------------
(* generate_content, after the workflow has returned its final state *)

GenerateFinish_NoFailedWrite(p) ==
    /\ pc[p] = END
    /\ IF st[p].error # None THEN
          /\ resp' = [resp EXCEPT ![p] = "500"]
          /\ UNCHANGED lectures
       ELSE
          /\ resp' = [resp EXCEPT ![p] = "200"]
          /\ UNCHANGED lectures
    \* the handler returns: its locals are gone
    /\ pc' = [pc EXCEPT ![p] = "idle"]
    /\ req' = [req EXCEPT ![p] = NoRequest]
    /\ run' = [run EXCEPT ![p] = 0]
    /\ lec' = [lec EXCEPT ![p] = NoLecture]
    /\ nlec' = [nlec EXCEPT ![p] = NoLecture]
    /\ st' = [st EXCEPT ![p] = initial_state("L1", {})]
    /\ calls' = [calls EXCEPT ![p] = NoCalls]
    /\ search' = [search EXCEPT ![p] = NoSearch]
    /\ trace' = [trace EXCEPT ![p] = <<>>]
    /\ UNCHANGED <<contents, nruns, attempts, vs, ing>>

\* "if result.get('error'): raise Exception(...)", the except clause, the return
GenerateFinish(p) ==
    /\ pc[p] = END
    /\ IF st[p].error # None THEN
          \* raise Exception(result["error"]) -> except: FAILED, save, HTTP 500
          LET lecture == [lec[p] EXCEPT !.generation_status = FAILED,
                                        !.generation_error = st[p].error] IN
          /\ lectures' = [lectures EXCEPT ![req[p].lecture_id] = lecture]
          /\ resp' = [resp EXCEPT ![p] = "500"]
       ELSE
          /\ resp' = [resp EXCEPT ![p] = "200"]
          /\ UNCHANGED lectures
    \* the handler returns: its locals are gone
    /\ pc' = [pc EXCEPT ![p] = "idle"]
    /\ req' = [req EXCEPT ![p] = NoRequest]
    /\ run' = [run EXCEPT ![p] = 0]
    /\ lec' = [lec EXCEPT ![p] = NoLecture]
    /\ nlec' = [nlec EXCEPT ![p] = NoLecture]
    /\ st' = [st EXCEPT ![p] = initial_state("L1", {})]
    /\ calls' = [calls EXCEPT ![p] = NoCalls]
    /\ search' = [search EXCEPT ![p] = NoSearch]
    /\ trace' = [trace EXCEPT ![p] = <<>>]
    /\ UNCHANGED <<contents, nruns, attempts, vs, ing>>

----------------------------------------------------------------------------
(* One client: the requests on the lecture are served one after the other,
   by the handler Client; the other handler stays idle. *)

Client == "p1"

Next ==
    \/ GenerateGet(Client)
    \/ GenerateSetStatus(Client)
    \/ retrieve_context_node(Client)
    \/ generate_notes_node(Client)
    \/ generate_assignment_node(Client)
    \/ generate_flashcards_node(Client)
    \/ save_content_node(Client)
    \/ GenerateFinish(Client)

Spec == Init /\ [][Next]_vars

----------------------------------------------------------------------------
(* The vector store: operations *)

SetAt(f, k, v) == [x \in DOMAIN f \cup {k} |-> IF x = k THEN v ELSE f[x]]

\* the ids deleted from a collection and not added since
DeletedIn(name) == IF name \in DOMAIN deleted THEN deleted[name] ELSE {}

\* client.get_or_create_collection(name)
get_or_create_collection(course_id) ==
    LET name == get_collection_name(course_id) IN
    IF name \in DOMAIN collections THEN collections
    ELSE collections @@ (name :> <<>>)

\* the body of add_documents: what it does to the index
AddCall(course_id, documents, metadatas, ids) ==
    LET call == [NoCall EXCEPT !.op = "add_documents",
                               !.lens = <<Len(documents), Len(metadatas), Len(ids)>>,
                               !.course_id = course_id,
                               !.documents = documents,
                               !.ids = ids]
        name == get_collection_name(course_id)
    IN
    IF Len(documents) = 0 THEN
        \* "if not documents: return []"
        /\ last' = call
        /\ UNCHANGED <<collections, deleted, named>>
    ELSE
        LET created == get_or_create_collection(course_id)
            embeddings == generate_embeddings(documents)
            did == [call EXCEPT !.embedded = TRUE,
                                !.created = name \notin DOMAIN collections]
        IN
        /\ named' = SetAt(named, course_id, name)
        /\ IF AddRejects(documents, embeddings, metadatas, ids) THEN
              /\ collections' = created
              /\ last' = [did EXCEPT !.raised = TRUE]
              /\ UNCHANGED deleted
           ELSE
              LET col == AddRecords(created[name], documents, embeddings,
                                    metadatas, ids) IN
              /\ collections' = [created EXCEPT ![name] = col]
              /\ last' = [did EXCEPT !.written = Len(col) - Len(created[name])]
              /\ deleted' = SetAt(deleted, name, DeletedIn(name) \ Range(ids))

add_documents(course_id, documents, metadatas, ids) ==
    /\ nops < MaxOps
    /\ nops' = nops + 1
    /\ AddCall(course_id, documents, metadatas, ids)
    /\ UNCHANGED <<pipeVars, ing>>

NextVS ==
    \E course_id \in CourseIds, documents \in DocLists,
       metadatas \in MetaLists, ids \in IdLists :
       add_documents(course_id, documents, metadatas, ids)

SpecVS == Init /\ [][NextVS]_vars

----------------------------------------------------------------------------
(* The vector store: search and delete *)

\* the values of n_results and the id lists the callers are taken to pass;
\* the ids a caller deletes are the embedding_ids of one lecture or material,
\* which are pairwise distinct
NResults == {1, 2}
IndexCourses == {<<"c", "-", "1">>, <<"d">>}
DeleteLists == {ids \in IdLists : \A i, j \in 1..Len(ids) : i # j => ids[i] # ids[j]}

generate_embedding(text) == Encode(text)

SquaredL2_Constant(u, v) == 0

\* the distance of a collection created without "hnsw:space": squared L2
SquaredL2(u, v) == (u[1] - v[1]) * (u[1] - v[1]) + (u[2] - v[2]) * (u[2] - v[2])

\* collection.query: the positions of the min(n_results, count) records
\* closest to the query, by non-decreasing distance.  The index does not fix
\* the order of records at equal distance, nor which of them it keeps when
\* they straddle the cut: every such answer is possible.
Ranked(col, query_embedding, n_results) ==
    LET k == IF Len(col) < n_results THEN Len(col) ELSE n_results
        D(i) == SquaredL2(query_embedding, col[i].embedding)
    IN {r \in [1..k -> 1..Len(col)] :
           /\ \A i, j \in 1..k : i # j => r[i] # r[j]
           /\ \A j \in 1..(k - 1) : D(r[j]) <= D(r[j + 1])
           /\ \A i \in (1..Len(col)) \ {r[j] : j \in 1..k} :
                  \A j \in 1..k : D(r[j]) <= D(i)}

\* the "Format results" loop
search_results(col, query_embedding, r) ==
    [j \in 1..Len(r) |->
        [id |-> col[r[j]].id, document |-> col[r[j]].document,
         metadata |-> col[r[j]].metadata,
         distance |-> SquaredL2(query_embedding, col[r[j]].embedding)]]

\* search_documents without a metadata filter
search_documents(course_id, query, n_results) ==
    LET name == get_collection_name(course_id)
        created == get_or_create_collection(course_id)
        query_embedding == generate_embedding(query)
    IN
    /\ \E r \in Ranked(created[name], query_embedding, n_results) :
          last' = [NoCall EXCEPT !.op = "search_documents",
                                 !.course_id = course_id,
                                 !.query = query,
                                 !.n_results = n_results,
                                 !.embedded = TRUE,
                                 !.created = name \notin DOMAIN collections,
                                 !.results = search_results(created[name],
                                                            query_embedding, r)]
    /\ collections' = created
    /\ named' = SetAt(named, course_id, name)
    /\ UNCHANGED <<nops, deleted, pipeVars, ing>>

DeleteRecords_KeepsLast(col, ids) ==
    SelectSeq(col, LAMBDA rec : rec.id \notin Range(ids) \/ rec = col[Len(col)])

\* collection.delete(ids=ids): ids the collection does not hold are ignored
DeleteRecords(col, ids) == SelectSeq(col, LAMBDA rec : rec.id \notin Range(ids))

\* the body of delete_documents: what it does to the index
DeleteCall(course_id, ids) ==
    LET call == [NoCall EXCEPT !.op = "delete_documents",
                               !.course_id = course_id,
                               !.ids = ids]
        name == get_collection_name(course_id)
    IN
    IF Len(ids) = 0 THEN
        \* "if not ids: return True"
        /\ last' = call
        /\ UNCHANGED <<collections, deleted, named>>
    ELSE
        LET created == get_or_create_collection(course_id) IN
        /\ named' = SetAt(named, course_id, name)
        /\ collections' = [created EXCEPT ![name] = DeleteRecords(@, ids)]
        /\ deleted' = SetAt(deleted, name, DeletedIn(name) \cup Range(ids))
        /\ last' = [call EXCEPT !.created = name \notin DOMAIN collections]

delete_documents(course_id, ids) ==
    /\ DeleteCall(course_id, ids)
    /\ UNCHANGED <<nops, pipeVars, ing>>

\* The index under well-formed calls: add_documents with lists of one length,
\* searches and deletes in any order.
NextIndex ==
    \E course_id \in IndexCourses :
       \/ \E documents \in DocLists, metadatas \in MetaLists, ids \in IdLists :
             /\ Len(documents) = Len(ids)
             /\ Len(metadatas) = Len(ids)
             /\ add_documents(course_id, documents, metadatas, ids)
       \/ \E query \in Texts, n_results \in NResults :
             search_documents(course_id, query, n_results)
       \/ \E ids \in DeleteLists :
             delete_documents(course_id, ids)

SpecIndex == Init /\ [][NextIndex]_vars

----------------------------------------------------------------------------
(* The vector store: naming of the collections *)

Pad(n, ch) == [i \in 1..n |-> ch]

\* course ids as strings of any kind: with hyphens, with underscores, of
\* exactly NameLimit characters and longer
NameInputs ==
    {<<"c", "-", "1">>, <<"c", "_", "1">>, <<"c", "1", "-">>, <<"d">>,
     Pad(NameLimit, "a"),
     Pad(NameLimit - 1, "a") \o <<"-">>,
     Pad(NameLimit, "a") \o <<"x">>,
     Pad(NameLimit, "a") \o <<"y">>}

get_collection_stats(course_id) ==
    LET name == get_collection_name(course_id)
        created == get_or_create_collection(course_id)
    IN
    /\ collections' = created
    /\ named' = SetAt(named, course_id, name)
    /\ last' = [NoCall EXCEPT !.op = "get_collection_stats",
                               !.course_id = course_id,
                               !.created = name \notin DOMAIN collections,
                               !.results = <<[collection_name |-> name,
                                              document_count |-> Len(created[name])]>>]
    /\ UNCHANGED <<nops, deleted, pipeVars, ing>>

NextNames == \E course_id \in NameInputs : get_collection_stats(course_id)

SpecNames == Init /\ [][NextNames]_vars

----------------------------------------------------------------------------
(* chunk_text: one step per iteration of its while loop.  Positions are
   counted from 0 as in the code; a text is a sequence of characters. *)

Whitespace == {" ", "\n", "\t"}

RECURSIVE lstrip(_)
lstrip(s) == IF Len(s) > 0 /\ Head(s) \in Whitespace THEN lstrip(Tail(s)) ELSE s

RECURSIVE rstrip(_)
rstrip(s) ==
    IF Len(s) > 0 /\ s[Len(s)] \in Whitespace
    THEN rstrip(SubSeq(s, 1, Len(s) - 1)) ELSE s

\* str.strip()
strip(s) == rstrip(lstrip(s))

Smaller(a, b) == IF a < b THEN a ELSE b

Largest(S) == CHOOSE x \in S : \A y \in S : y <= x

\* text[a:b] for 0 <= a
Slice(text, a, b) == SubSeq(text, a + 1, Smaller(b, Len(text)))

\* text.rfind(sub, lo, hi) for 0 <= lo: the highest position in lo..hi at
\* which sub occurs entirely before hi, or -1
rfind(text, sub, lo, hi) ==
    LET found == {i \in lo..(Smaller(hi, Len(text)) - Len(sub)) :
                     SubSeq(text, i + 1, i + Len(sub)) = sub}
    IN IF found = {} THEN -1 ELSE Largest(found)

ParagraphBreak == <<"\n", "\n">>
Punctuation == <<".", "!", "?">>

\* "for punct in ['.', '!', '?']": the end set by the first mark that
\* rfind finds at a position > 0, or -1 when the loop ends without a break
RECURSIVE SentenceEnd(_, _, _, _)
SentenceEnd(text, puncts, lo, hi) ==
    IF Len(puncts) = 0 THEN -1
    ELSE LET sent_break == rfind(text, <<Head(puncts)>>, lo, hi) IN
         IF sent_break > 0 THEN sent_break + 1
         ELSE SentenceEnd(text, Tail(puncts), lo, hi)

\* the value of end when the chunk is cut
WindowEnd(text, start, chunk_size) ==
    LET end == start + chunk_size IN
    IF end < Len(text) THEN
        LET para_break == rfind(text, ParagraphBreak, start, end) IN
        IF para_break > start + chunk_size \div 2 THEN para_break
        ELSE LET sent_end == SentenceEnd(text, Punctuation,
                                         start + chunk_size \div 2, end)
             IN IF sent_end # -1 THEN sent_end ELSE end
    ELSE end

Keep_Always(chunk) == TRUE

\* "if chunk:"
Keep(chunk) == Len(chunk) > 0

NextStart_Gap(end, overlap, text_len) ==
    IF end < text_len THEN end + 1 ELSE text_len

\* "start = end - overlap if end < text_len else text_len"
NextStart(end, overlap, text_len) ==
    IF end < text_len THEN end - overlap ELSE text_len

\* One iteration of "while start < text_len".  A loop that makes no progress
\* would run for ever: it is followed for one more iteration than the text
\* has characters, which a loop that makes progress never needs.
ChunkLoop ==
    /\ ~chunking.returned
    /\ chunking.start < Len(chunking.text)
    /\ Len(chunking.windows) <= Len(chunking.text)
    /\ LET text == chunking.text
           start == chunking.start
           end == WindowEnd(text, start, chunking.chunk_size)
           chunk == strip(Slice(text, start, end))
       IN chunking' = [chunking EXCEPT
                          !.chunks = IF Keep(chunk) THEN Append(@, chunk) ELSE @,
                          !.windows = Append(@, <<start, end>>),
                          !.start = NextStart(end, chunking.overlap, Len(text))]
    /\ UNCHANGED <<pipeVars, vs, materials, upload, edit, transcribing>>

\* "if not text: return []" and "return chunks"
ChunkReturn ==
    /\ ~chunking.returned
    /\ chunking.start >= Len(chunking.text)
    /\ chunking' = [chunking EXCEPT !.returned = TRUE]
    /\ UNCHANGED <<pipeVars, vs, materials, upload, edit, transcribing>>

chunk_text == ChunkLoop \/ ChunkReturn

\* the characters of the texts: a letter, two sentence marks and the newline,
\* which is both white space and, doubled, the paragraph break
ChunkAlphabet == {"a", ".", "!", "\n"}

TextsUpTo(n) == UNION {[1..k -> ChunkAlphabet] : k \in 0..n}

\* chunk_size and overlap of a call with the default arguments.  The code's
\* defaults are 1000 and 200; they are scaled down to the smallest pair that
\* keeps what the loop depends on: overlap < chunk_size \div 2, and a window
\* long enough for a paragraph break past its half-point.
DefaultArguments == <<5, 1>>

\* every pair with chunk_size > 0 and 0 <= overlap < chunk_size, up to 3
ArgumentPairs == {a \in (1..3) \X (0..2) : a[2] < a[1]}

Call(text, arguments) ==
    [NoChunking EXCEPT !.text = text, !.chunk_size = arguments[1],
                       !.overlap = arguments[2]]

InitOthers ==
    /\ lectures = [l \in LectureIds |-> Lecture(FALSE)]
    /\ contents = <<>>
    /\ nruns = 0
    /\ pc = [p \in Procs |-> "idle"]
    /\ req = [p \in Procs |-> NoRequest]
    /\ run = [p \in Procs |-> 0]
    /\ lec = [p \in Procs |-> NoLecture]
    /\ nlec = [p \in Procs |-> NoLecture]
    /\ st = [p \in Procs |-> initial_state("L1", {})]
    /\ attempts = [p \in Procs |-> 0]
    /\ calls = [p \in Procs |-> NoCalls]
    /\ search = [p \in Procs |-> NoSearch]
    /\ trace = [p \in Procs |-> <<>>]
    /\ resp = [p \in Procs |-> None]
    /\ collections = <<>>
    /\ last = NoCall
    /\ nops = 0
    /\ deleted = <<>>
    /\ named = <<>>
    /\ materials = <<>>
    /\ upload = NoUpload
    /\ edit = NoEdit
    /\ transcribing = NoTranscribing

\* chunk_text(text) on every text of at most MaxText characters
InitChunk ==
    /\ InitOthers
    /\ chunking \in {Call(text, DefaultArguments) : text \in TextsUpTo(MaxText)}

SpecChunk == InitChunk /\ [][chunk_text]_vars

\* chunk_text(text, chunk_size, overlap) on shorter texts with any arguments
InitChunkAny ==
    /\ InitOthers
    /\ chunking \in {Call(text, arguments) :
                        text \in TextsUpTo(MaxText - 2), arguments \in ArgumentPairs}

SpecChunkAny == InitChunkAny /\ [][chunk_text]_vars

----------------------------------------------------------------------------
(* delete_lecture: one step per awaited store operation *)

\* Lecture.get, the request checks, the removal of the audio file (which
\* this model does not hold) and the synchronous delete_documents call
DeleteGet(p) ==
    /\ pc[p] = "idle"
    /\ \E l \in LectureIds, owner \in BOOLEAN :
          LET lecture == lectures[l] IN
          IF ~lecture.present THEN
              /\ resp' = [resp EXCEPT ![p] = "404"]
              /\ UNCHANGED <<pc, req, lec, vs, ing>>
          ELSE IF ~owner THEN
              /\ resp' = [resp EXCEPT ![p] = "403"]
              /\ UNCHANGED <<pc, req, lec, vs, ing>>
          ELSE
              /\ IF Len(lecture.embedding_ids) > 0
                 THEN /\ DeleteCall(lecture.course_id, lecture.embedding_ids)
                      /\ UNCHANGED <<nops, ing>>
                 ELSE UNCHANGED <<vs, ing>>
              /\ req' = [req EXCEPT ![p] = [NoRequest EXCEPT !.lecture_id = l]]
              /\ lec' = [lec EXCEPT ![p] = lecture]
              /\ resp' = [resp EXCEPT ![p] = None]
              /\ pc' = [pc EXCEPT ![p] = "delete_contents"]
    /\ UNCHANGED <<lectures, contents, nruns, run, nlec, st, attempts, calls,
                   search, trace>>

\* GeneratedContent.find(GeneratedContent.lecture_id == lecture_id).delete()
DeleteContents(p) ==
    /\ pc[p] = "delete_contents"
    /\ contents' = SelectSeq(contents, LAMBDA c : c.lecture_id # req[p].lecture_id)
    /\ pc' = [pc EXCEPT ![p] = "delete_lecture"]
    /\ UNCHANGED <<lectures, nruns, req, run, lec, nlec, st, attempts, calls,
                   search, trace, resp, vs, ing>>

\* lecture.delete(); the handler answers 204
DeleteLecture(p) ==
    /\ pc[p] = "delete_lecture"
    /\ lectures' = [lectures EXCEPT ![req[p].lecture_id] = NoLecture]
    /\ resp' = [resp EXCEPT ![p] = "204"]
    /\ pc' = [pc EXCEPT ![p] = "idle"]
    /\ req' = [req EXCEPT ![p] = NoRequest]
    /\ lec' = [lec EXCEPT ![p] = NoLecture]
    /\ UNCHANGED <<contents, nruns, run, nlec, st, attempts, calls, search,
                   trace, vs, ing>>

delete_lecture(p) ==
    \/ DeleteGet(p)
    \/ DeleteContents(p)
    \/ DeleteLecture(p)

----------------------------------------------------------------------------
(* Concurrent requests: two handlers serve generate and delete requests on
   one transcribed lecture whose transcript chunks are in the index.  The
   event loop may switch handlers at every await.  The requests ask for notes
   only; the search finds nothing, the model answers with an object or fails
   every attempt, and the store operations of the persistence stage succeed. *)

TranscriptDocs == <<"alpha", "beta">>
TranscriptIds == <<"id1", "id2">>

InitConcurrent ==
    /\ lectures = [l \in LectureIds |->
                      [Lecture(TRUE) EXCEPT !.embedding_ids = TranscriptIds]]
    /\ contents = <<>>
    /\ nruns = 0
    /\ pc = [p \in Procs |-> "idle"]
    /\ req = [p \in Procs |-> NoRequest]
    /\ run = [p \in Procs |-> 0]
    /\ lec = [p \in Procs |-> NoLecture]
    /\ nlec = [p \in Procs |-> NoLecture]
    /\ st = [p \in Procs |-> initial_state("L1", {})]
    /\ attempts = [p \in Procs |-> 0]
    /\ calls = [p \in Procs |-> NoCalls]
    /\ search = [p \in Procs |-> NoSearch]
    /\ trace = [p \in Procs |-> <<>>]
    /\ resp = [p \in Procs |-> None]
    /\ collections = (get_collection_name(Lecture(TRUE).course_id) :>
                         AddRecords(<<>>, TranscriptDocs,
                                    generate_embeddings(TranscriptDocs),
                                    <<"m", "m">>, TranscriptIds))
    /\ last = NoCall
    /\ nops = 0
    /\ deleted = <<>>
    /\ named = (Lecture(TRUE).course_id :> get_collection_name(Lecture(TRUE).course_id))
    /\ chunking = NoChunking
    /\ materials = <<>>
    /\ upload = NoUpload
    /\ edit = NoEdit
    /\ transcribing = NoTranscribing

NextConcurrent ==
    \E p \in Procs :
       \/ /\ GenerateGet(p)
          /\ pc'[p] = "set_generating" => req'[p].content_types = {"notes"}
       \/ GenerateSetStatus(p)
       \/ /\ retrieve_context_node(p)
          /\ ~search'[p].raised
          /\ search'[p].results = <<>>
       \/ /\ generate_notes_node(p)
          /\ st'[p].notes \in {None, "object"}
       \/ generate_assignment_node(p)
       \/ generate_flashcards_node(p)
       \/ /\ save_content_node(p)
          /\ st'[p].error = st[p].error
       \/ GenerateFinish(p)
       \/ delete_lecture(p)

SpecConcurrent == InitConcurrent /\ [][NextConcurrent]_vars

----------------------------------------------------------------------------
(* update_content: one step per awaited store operation.  A record is
   addressed by its place in the collection. *)

\* the content an edit request carries
EditValues == {"edited"}

Edited_KeepsVersion(content, value) ==
    [content EXCEPT !.content = value, !.is_edited = TRUE]

\* "content.content = update_data.content; content.is_edited = True;
\*  content.version += 1"
Edited(content, value) ==
    [content EXCEPT !.content = value, !.is_edited = TRUE, !.version = @ + 1]

\* content = await GeneratedContent.get(content_id); "if not content:" 404
UpdateGet ==
    /\ edit.position = "idle"
    /\ \E i \in 0..Len(contents) :
          IF i = 0 THEN edit' = [NoEdit EXCEPT !.resp = "404"]
          ELSE /\ contents[i].version <= MaxVersion
               /\ edit' = [position |-> "check", index |-> i,
                           content |-> contents[i], resp |-> None]
    /\ UNCHANGED <<pipeVars, vs, chunking, materials, upload, transcribing>>

\* lecture = await Lecture.get(content.lecture_id); the ownership check
UpdateCheck ==
    /\ edit.position = "check"
    /\ \E owner \in BOOLEAN :
          IF ~lectures[edit.content.lecture_id].present \/ ~owner
          THEN edit' = [NoEdit EXCEPT !.resp = "403"]
          ELSE edit' = [edit EXCEPT !.position = "save"]
    /\ UNCHANGED <<pipeVars, vs, chunking, materials, upload, transcribing>>

\* the assignments to the loaded document and "await content.save()", which
\* stores the whole document or raises
UpdateSave ==
    /\ edit.position = "save"
    /\ \E value \in EditValues, fails \in BOOLEAN :
          IF fails
          THEN /\ edit' = [NoEdit EXCEPT !.resp = "500"]
               /\ UNCHANGED contents
          ELSE /\ contents' = [contents EXCEPT
                                  ![edit.index] = Edited(edit.content, value)]
               /\ edit' = [NoEdit EXCEPT !.resp = "200"]
    /\ UNCHANGED <<lectures, nruns, pc, req, run, lec, nlec, st, attempts,
                   calls, search, trace, resp>>
    /\ UNCHANGED <<vs, chunking, materials, upload, transcribing>>

update_content == UpdateGet \/ UpdateCheck \/ UpdateSave

\* Edit requests while one client generates and regenerates notes; the
\* search returns nothing and the model answers with an object or null.
NextEdit ==
    \/ /\ GenerateGet(Client)
       /\ pc'[Client] = "set_generating" => req'[Client].content_types = {"notes"}
    \/ GenerateSetStatus(Client)
    \/ /\ retrieve_context_node(Client)
       /\ ~search'[Client].raised
       /\ search'[Client].results = <<>>
    \/ /\ generate_notes_node(Client)
       /\ st'[Client].notes \in {None, "object"}
    \/ generate_assignment_node(Client)
    \/ generate_flashcards_node(Client)
    \/ save_content_node(Client)
    \/ GenerateFinish(Client)
    \/ update_content

SpecEdit == Init /\ [][NextEdit]_vars

----------------------------------------------------------------------------
(* upload_material: one step per stretch of code between two awaits.
   process_document and add_documents are synchronous calls. *)

\* the chunk lists process_document is taken to return
ChunkLists == {<<>>, <<"alpha">>, <<"alpha", "beta">>}

\* f"{material.id}_chunk_{i}" for i in range(n); a material's id is its
\* place in the collection
MaterialChunkIds(m, n) == [i \in 1..n |-> <<m, "chunk", i - 1>>]

MaterialMetadatas(n) == [i \in 1..n |-> "m"]

Failed_ErrorOnly(doc, e) == [doc EXCEPT !.processing_error = e]

\* "material.processing_status = FAILED; material.processing_error = str(e)"
Failed(doc, e) ==
    [doc EXCEPT !.processing_status = FAILED, !.processing_error = e]

\* The checks, the file write, Material(...) and "await material.insert()":
\* a request that is refused or whose file or record cannot be written ends
\* here with an error response.
UploadInsert ==
    /\ upload.position = "idle"
    /\ \E outcome \in {"404", "403", "400", "500", "inserted"} :
          IF outcome # "inserted"
          THEN /\ upload' = [NoUpload EXCEPT !.resp = outcome]
               /\ UNCHANGED materials
          ELSE /\ Len(materials) < MaxUploads
               /\ materials' = Append(materials, Material(<<"d">>))
               /\ upload' = [NoUpload EXCEPT !.position = "process",
                                             !.material = Len(materials) + 1]
    /\ UNCHANGED <<pipeVars, vs, chunking, edit, transcribing>>

\* The try block up to the end of its "await material.save()":
\* process_document raises or returns chunks, add_documents raises before it
\* writes or indexes the chunks, and the save stores the document or raises.
UploadProcess ==
    /\ upload.position = "process"
    /\ \E extracted \in BOOLEAN, chunks \in ChunkLists,
          indexed \in BOOLEAN, saved \in BOOLEAN :
          LET chunk_ids == MaterialChunkIds(upload.material, Len(chunks))
              done == [upload.doc EXCEPT !.chunks = chunks,
                                         !.processing_status = COMPLETED]
              kept == [done EXCEPT !.embedding_ids = chunk_ids]
          IN
          IF ~extracted THEN
              /\ upload' = [upload EXCEPT !.position = "except", !.raised = "process"]
              /\ UNCHANGED <<materials, vs>>
          ELSE IF Len(chunks) = 0 THEN
              /\ UNCHANGED vs
              /\ IF saved
                 THEN /\ materials' = [materials EXCEPT ![upload.material] = done]
                      /\ upload' = [upload EXCEPT !.position = "return", !.doc = done]
                 ELSE /\ upload' = [upload EXCEPT !.position = "except", !.doc = done,
                                                  !.raised = "save"]
                      /\ UNCHANGED materials
          ELSE IF ~indexed THEN
              /\ upload' = [upload EXCEPT !.position = "except", !.doc = done,
                                          !.raised = "index"]
              /\ UNCHANGED <<materials, vs>>
          ELSE
              /\ AddCall(upload.doc.course_id, chunks,
                         MaterialMetadatas(Len(chunks)), chunk_ids)
              /\ UNCHANGED nops
              /\ IF saved
                 THEN /\ materials' = [materials EXCEPT ![upload.material] = kept]
                      /\ upload' = [upload EXCEPT !.position = "return", !.doc = kept]
                 ELSE /\ upload' = [upload EXCEPT !.position = "except", !.doc = kept,
                                                  !.raised = "save"]
                      /\ UNCHANGED materials
    /\ UNCHANGED <<pipeVars, chunking, edit, transcribing>>

\* The except clause: FAILED and the error are set and the document is saved;
\* when this save raises, the request fails.
UploadExcept ==
    /\ upload.position = "except"
    /\ \E saved \in BOOLEAN :
          LET doc == Failed(upload.doc, upload.raised) IN
          IF saved
          THEN /\ materials' = [materials EXCEPT ![upload.material] = doc]
               /\ upload' = [upload EXCEPT !.position = "return", !.doc = doc]
          ELSE /\ upload' = [upload EXCEPT !.position = "idle", !.doc = doc,
                                           !.unsaved = TRUE, !.resp = "500"]
               /\ UNCHANGED materials
    /\ UNCHANGED <<pipeVars, vs, chunking, edit, transcribing>>

\* "return MaterialUploadResponse(...)": answered 201 with the status
UploadReturn ==
    /\ upload.position = "return"
    /\ upload' = [upload EXCEPT !.position = "idle", !.resp = "201"]
    /\ UNCHANGED <<pipeVars, vs, materials, chunking, edit, transcribing>>

upload_material == UploadInsert \/ UploadProcess \/ UploadExcept \/ UploadReturn

SpecUpload == Init /\ [][upload_material]_vars

----------------------------------------------------------------------------
(* transcribe_lecture: one step per stretch of code between two awaits.
   transcribe_audio, chunk_text and add_documents are synchronous calls; the
   handler's own saves succeed. *)

\* f"{lecture.id}_transcript_{i}" for i in range(n)
TranscriptChunkIds(l, n) == [i \in 1..n |-> <<l, "transcript", i - 1>>]

\* Lecture.get, the request checks and the early return
TranscribeGet ==
    /\ transcribing.position = "idle"
    /\ \E l \in LectureIds, owner \in BOOLEAN, audio \in BOOLEAN, force \in BOOLEAN :
          LET lecture == lectures[l]
              answer(r) == [NoTranscribing EXCEPT !.resp = r]
          IN
          IF ~lecture.present THEN transcribing' = answer("404")
          ELSE IF ~owner THEN transcribing' = answer("403")
          ELSE IF ~audio THEN transcribing' = answer("400")
          ELSE IF lecture.transcription_status = COMPLETED /\ ~force
          THEN transcribing' = answer("200")
          ELSE /\ nops < MaxOps
               /\ transcribing' = [position |-> "set_transcribing", lecture_id |-> l,
                                   lecture |-> lecture, resp |-> None]
    /\ UNCHANGED <<pipeVars, vs, chunking, materials, upload, edit>>

\* lecture.transcription_status = TRANSCRIBING; await lecture.save()
TranscribeSetStatus ==
    /\ transcribing.position = "set_transcribing"
    /\ LET lecture == [transcribing.lecture EXCEPT
                          !.transcription_status = TRANSCRIBING,
                          !.transcribed = FALSE] IN
       /\ lectures' = [lectures EXCEPT ![transcribing.lecture_id] = lecture]
       /\ transcribing' = [transcribing EXCEPT !.position = "transcribe",
                                               !.lecture = lecture]
    /\ UNCHANGED <<contents, nruns, pc, req, run, lec, nlec, st, attempts,
                   calls, search, trace, resp>>
    /\ UNCHANGED <<vs, chunking, materials, upload, edit>>

\* The try block and the except clause, each up to the end of its
\* "await lecture.save()": transcribe_audio raises or returns a transcript
\* that chunk_text cuts into chunks (none for an empty transcript), and
\* add_documents raises before it writes or indexes the chunks.  The field
\* "transcribed" says that the status is COMPLETED and the transcript not empty.
TranscribeRun ==
    /\ transcribing.position = "transcribe"
    /\ \E heard \in BOOLEAN, chunks \in ChunkLists, indexed \in BOOLEAN :
          LET l == transcribing.lecture_id
              chunk_ids == TranscriptChunkIds(l, Len(chunks))
              done == [transcribing.lecture EXCEPT
                          !.transcribed = Len(chunks) > 0,
                          !.transcription_status = COMPLETED]
              kept == [done EXCEPT !.embedding_ids = chunk_ids]
              failed(lecture) == [lecture EXCEPT !.transcription_status = FAILED,
                                                 !.transcribed = FALSE]
              finish(lecture, r) ==
                  /\ lectures' = [lectures EXCEPT ![l] = lecture]
                  /\ transcribing' = [NoTranscribing EXCEPT !.resp = r]
          IN
          IF ~heard THEN
              /\ finish(failed(transcribing.lecture), "500")
              /\ UNCHANGED vs
          ELSE IF Len(chunks) = 0 THEN
              /\ finish(done, "200")
              /\ UNCHANGED vs
          ELSE IF ~indexed THEN
              /\ finish(failed(done), "500")
              /\ UNCHANGED vs
          ELSE
              /\ AddCall(transcribing.lecture.course_id, chunks,
                         MaterialMetadatas(Len(chunks)), chunk_ids)
              /\ nops' = nops + 1
              /\ finish(kept, "200")
    /\ UNCHANGED <<contents, nruns, pc, req, run, lec, nlec, st, attempts,
                   calls, search, trace, resp>>
    /\ UNCHANGED <<chunking, materials, upload, edit>>

transcribe_lecture == TranscribeGet \/ TranscribeSetStatus \/ TranscribeRun

\* Transcribe and delete requests on one lecture, served one after the other
NextTranscribe ==
    \/ /\ pc[Client] = "idle"
       /\ transcribe_lecture
    \/ /\ transcribing.position = "idle"
       /\ delete_lecture(Client)

SpecTranscribe == Init /\ [][NextTranscribe]_vars

----------------------------------------------------------------------------
(* Shorthands for the properties *)

Running(p) == pc[p] \notin {"idle", "set_generating"}

InSave(p) == NodeOf(pc[p]) = "save_content"

GenNodes == {"generate_notes", "generate_assignment", "generate_flashcards"}

StageOrder == <<"retrieve_context", "generate_notes", "generate_assignment",
                "generate_flashcards", "save_content">>

\* what a handler holds while it serves a request
Locals(q) == <<pc[q], req[q], run[q], lec[q], nlec[q], st[q], attempts[q],
               calls[q], search[q], trace[q]>>

\* stage order of the content types
Rank(t) == CASE t = "notes" -> 1 [] t = "assignment" -> 2 [] t = "flashcards" -> 3

\* records of the store written for lecture l and type t by run r
RecordsOf(l, t, r) ==
    {i \in 1..Len(contents) : /\ contents[i].lecture_id = l
                              /\ contents[i].content_type = t
                              /\ contents[i].run = r}

----------------------------------------------------------------------------
(* C1: in every run the nodes entered so far are a prefix of the fixed order
   retrieve_context, generate_notes, generate_assignment, generate_flashcards,
   save_content, the handler is in the last of them, and when the graph has
   ended every node has been entered exactly once, whatever was requested and
   whatever failed. *)
C1_FixedStageOrder ==
    \A p \in Procs :
        Running(p) =>
            /\ Len(trace[p]) \in 1..Len(StageOrder)
            /\ trace[p] = SubSeq(StageOrder, 1, Len(trace[p]))
            /\ pc[p] # END => NodeOf(pc[p]) = trace[p][Len(trace[p])]
            /\ pc[p] = END => trace[p] = StageOrder

\* a run that ended after a failed stage and a skipped stage
C1_Witness ==
    \E p \in Procs :
        /\ pc[p] = END
        /\ trace[p] = StageOrder
        /\ calls[p]["notes"] = "raised"
        /\ "assignment" \notin st[p].content_types
        /\ calls[p]["flashcards"] = "returned"

----------------------------------------------------------------------------
(* C2: a run that requested all three types, whose notes call returned and
   whose assignment call raised after its attempts, and whose persistence
   stage met no store failure, ends with "notes" in completed_types, a
   non-null error and a notes record written by this run. *)
C2_NotesSurviveAssignmentFailure ==
    \A p \in Procs :
        ( /\ pc[p] = END
          /\ st[p].content_types = ContentTypes
          /\ calls[p]["notes"] = "returned"
          /\ calls[p]["assignment"] = "raised"
          /\ st[p].error # SaveError ) =>
            /\ "notes" \in Range(st[p].completed_types)
            /\ st[p].error # None
            /\ RecordsOf(st[p].lecture_id, "notes", run[p]) # {}

----------------------------------------------------------------------------
(* C3: when the persistence stage has run without a store failure, the store
   holds exactly one record of this run for every non-null slot and none for
   a null slot, and the lecture is COMPLETED and stamped by this run. *)
C3_OneRecordPerNonNullSlot ==
    \A p \in Procs :
        (pc[p] = END /\ st[p].error # SaveError) =>
            /\ \A t \in ContentTypes :
                  Cardinality(RecordsOf(st[p].lecture_id, t, run[p])) =
                      IF st[p][t] # None THEN 1 ELSE 0
            /\ lectures[st[p].lecture_id].generation_status = COMPLETED
            /\ lectures[st[p].lecture_id].generated_at = run[p]

----------------------------------------------------------------------------
(* C4: a step of a generate_json call is its attempt number attempts+1, which
   is at most 3; an attempt that succeeds ends the call with the parsed
   result; a failed attempt is followed by another one exactly when fewer
   than 3 have been made; the third failed attempt ends the call by raising. *)
C4_AtMostThreeAttempts ==
    [][\A p \in Procs :
         LET t == TypeOfNode(pc[p])
             stepped == attempts'[p] # attempts[p] \/ calls'[p] # calls[p]
         IN
         (pc[p] \in GenNodes /\ stepped) =>
            /\ attempts[p] + 1 <= 3
            /\ \/ /\ calls'[p][t] = "returned"
                  /\ pc'[p] = Edge(pc[p])
                  /\ attempts'[p] = 0
               \/ /\ attempts[p] + 1 < 3
                  /\ attempts'[p] = attempts[p] + 1
                  /\ pc'[p] = pc[p]
                  /\ calls'[p][t] = "none"
               \/ /\ attempts[p] + 1 = 3
                  /\ calls'[p][t] = "raised"
                  /\ pc'[p] = Edge(pc[p])
                  /\ attempts'[p] = 0
      ]_vars

\* a call that raised after its third attempt, and one that is at its third
C4_Witness ==
    \E p \in Procs :
        /\ calls[p]["notes"] = "raised"
        /\ pc[p] = "generate_assignment"
        /\ attempts[p] = 2

----------------------------------------------------------------------------
(* C5: retrieve_context_node always hands over to generate_notes with no
   error on the state; when the search raised or returned no result, the
   context is the sentinel and context_documents is empty, for the rest of
   the run. *)
C5_RetrievalNeverFails ==
    \A p \in Procs :
        /\ (Running(p) /\ pc[p] # "retrieve_context") =>
              /\ trace[p][2] = "generate_notes"
              /\ (search[p].raised \/ search[p].results = <<>>) =>
                    /\ st[p].context = Sentinel
                    /\ st[p].context_documents = <<>>
        /\ pc[p] = "generate_notes" => st[p].error = None

\* the generation stage is reached after a search that raised
C5_Witness ==
    \E p \in Procs :
        /\ pc[p] = "generate_notes"
        /\ search[p].raised
        /\ st[p].context = Sentinel

----------------------------------------------------------------------------
(* C6: an add_documents call whose three lists differ in length raises
   without having invoked the embedder, created a collection or written a
   document. *)
C6_MismatchRejectedBeforeEmbedding ==
    ( /\ last.op = "add_documents"
      /\ ~(last.lens[1] = last.lens[2] /\ last.lens[2] = last.lens[3]) ) =>
        /\ last.raised
        /\ ~last.embedded
        /\ ~last.created
        /\ last.written = 0

----------------------------------------------------------------------------
(* C7: the store never holds two GeneratedContent records with the same
   lecture_id and content_type. *)
C7_OneRecordPerLectureAndType ==
    \A l \in LectureIds, t \in ContentTypes :
        Cardinality({i \in 1..Len(contents) :
                        contents[i].lecture_id = l /\ contents[i].content_type = t}) <= 1

----------------------------------------------------------------------------
(* C8: while a lecture is COMPLETED, a generate request on it starts a run
   only if it carries force=true; a request that returns without starting a
   run (a step in which no other handler moves) leaves the lecture records, the content records and the run counter
   as they were and has called neither the model nor the vector index. *)
C8_CompletedWithoutForceIsNoOp ==
    [][\A p \in Procs, l \in LectureIds :
         ( /\ pc[p] = "idle"
           /\ lectures[l].present
           /\ lectures[l].generation_status = COMPLETED ) =>
            /\ (pc'[p] = "set_generating" /\ req'[p].lecture_id = l)
                  => req'[p].force
            /\ (pc'[p] = "idle" /\ \A q \in Procs \ {p} : Locals(q)' = Locals(q)) =>
                  /\ lectures' = lectures
                  /\ contents' = contents
                  /\ nruns' = nruns
                  /\ calls'[p] = NoCalls
                  /\ search'[p] = NoSearch
      ]_vars

\* a request was answered "already generated" while records exist
C8_Witness ==
    \E p \in Procs :
        /\ resp[p] = "already_generated"
        /\ pc[p] = "idle"
        /\ Len(contents) > 0
        /\ lectures["L1"].generation_status = COMPLETED

----------------------------------------------------------------------------
(* C9 as stated: once the call of a generation stage has raised, no later
   generation stage invokes the model. *)
C9_NoGenerationAfterError ==
    \A p \in Procs : \A t1, t2 \in ContentTypes :
        (Rank(t1) < Rank(t2) /\ calls[p][t1] = "raised") =>
            /\ calls[p][t2] = "none"
            /\ ~(pc[p] \in GenNodes /\ TypeOfNode(pc[p]) = t2 /\ attempts[p] > 0)

(* C9 as amended: an error recorded by a generation stage stops nothing: when
   the run is in the persistence stage or has ended, the model has been
   invoked for exactly the requested types, whatever the earlier stages
   recorded. *)
C9_EveryRequestedStageRuns ==
    \A p \in Procs :
        (InSave(p) \/ pc[p] = END) =>
            \A t \in ContentTypes :
                (t \in st[p].content_types) <=> (calls[p][t] # "none")

\* the assignment stage produced content after the notes stage had failed
C9_Witness ==
    \E p \in Procs :
        /\ pc[p] = END
        /\ calls[p]["notes"] = "raised"
        /\ calls[p]["assignment"] = "returned"
        /\ st[p].assignment = "object"

----------------------------------------------------------------------------
(* C10 as stated: when a stage failed and a later stage succeeded, the final
   error is not the failed stage's message, and completed_types lists every
   type that succeeded. *)
C10_LaterSuccessMasksError ==
    \A p \in Procs : \A t1, t2 \in ContentTypes :
        ( /\ pc[p] = END
          /\ Rank(t1) < Rank(t2)
          /\ calls[p][t1] = "raised"
          /\ calls[p][t2] = "returned" ) =>
            /\ st[p].error # ErrorOf(t1)
            /\ \A t \in ContentTypes :
                  calls[p][t] = "returned" => t \in Range(st[p].completed_types)

\* the types whose call raised in the run of p
FailedTypes(p) == {t \in ContentTypes : calls[p][t] = "raised"}

LastFailed(p) ==
    CHOOSE t \in FailedTypes(p) : \A u \in FailedTypes(p) : Rank(u) <= Rank(t)

(* C10 as amended: a success never clears the error.  When the generation
   stages are over the error is the message of the last stage that failed
   (None if none failed), until a persistence failure replaces it, and
   completed_types lists exactly the types that succeeded, in stage order. *)
C10_SuccessKeepsEarlierError ==
    \A p \in Procs :
        (InSave(p) \/ pc[p] = END) =>
            /\ \/ st[p].error = IF FailedTypes(p) = {} THEN None
                                ELSE ErrorOf(LastFailed(p))
               \/ st[p].error = SaveError /\ pc[p] = END
            /\ Range(st[p].completed_types) =
                  {t \in ContentTypes : calls[p][t] = "returned"}
            /\ \A i, j \in 1..Len(st[p].completed_types) :
                  i < j => Rank(st[p].completed_types[i]) < Rank(st[p].completed_types[j])

\* notes failed, flashcards succeeded, and the run ended with the notes error
C10_Witness ==
    \E p \in Procs :
        /\ pc[p] = END
        /\ calls[p]["notes"] = "raised"
        /\ calls[p]["flashcards"] = "returned"
        /\ st[p].error = ErrorOf("notes")

----------------------------------------------------------------------------
(* Shorthands for the persistence stage *)

\* the try block of save_content_node ran to its last statement: the lecture
\* carries the status and the stamp written by the run of p
SaveDone(p) ==
    /\ lectures[st[p].lecture_id].generation_status = COMPLETED
    /\ lectures[st[p].lecture_id].generated_at = run[p]

\* the run of p has ended and a store operation of its persistence stage raised
PersistFailed(p) == pc[p] = END /\ ~SaveDone(p)

\* the requested types that completed_types does not list
MissingTypes(p) == st[p].content_types \ Range(st[p].completed_types)

\* the slots of p's state that hold content to insert, without a record of its run
Unwritten(p) ==
    {t \in ContentTypes : /\ Truthy(st[p][t])
                          /\ RecordsOf(st[p].lecture_id, t, run[p]) = {}}

----------------------------------------------------------------------------
(* C11 as stated: when a run has ended and its context retrieval, one of its
   generation stages or its persistence stage failed, the final state has a
   non-null error or a requested type missing from completed_types. *)
C11_NoFailureDropped ==
    \A p \in Procs :
        ( /\ pc[p] = END
          /\ \/ search[p].raised
             \/ FailedTypes(p) # {}
             \/ PersistFailed(p) ) =>
            \/ st[p].error # None
            \/ MissingTypes(p) # {}

(* C11 as amended: a failed generation stage shows as its type missing from
   completed_types, and a failed persistence stage shows as the error
   "Failed to save content"; a failed context retrieval shows only as the
   sentinel context with no context documents, and when nothing else failed
   the final state has a null error and lists every requested type. *)
C11_GenerationAndSaveFailuresShown ==
    \A p \in Procs :
        pc[p] = END =>
            /\ \A t \in FailedTypes(p) : t \in MissingTypes(p)
            /\ PersistFailed(p) => st[p].error = SaveError
            /\ search[p].raised =>
                  /\ st[p].context = Sentinel
                  /\ st[p].context_documents = <<>>
            /\ (FailedTypes(p) = {} /\ ~PersistFailed(p)) =>
                  /\ st[p].error = None
                  /\ MissingTypes(p) = {}

\* a run whose retrieval, assignment stage and persistence stage failed
C11_Witness ==
    \E p \in Procs :
        /\ pc[p] = END
        /\ search[p].raised
        /\ calls[p]["notes"] = "returned"
        /\ calls[p]["assignment"] = "raised"
        /\ PersistFailed(p)
        /\ st[p].error = SaveError
        /\ MissingTypes(p) = {"assignment"}

----------------------------------------------------------------------------
(* C12: a step in which a store operation of the persistence stage raises
   (the node ends without having saved the lecture) sets the state's error to
   "Failed to save content" and leaves the content records as they were: the
   records the stage had inserted stay in the store. *)
C12_SaveFailureKeepsRecords ==
    [][\A p \in Procs :
         (InSave(p) /\ pc'[p] = END /\ lectures' = lectures) =>
            /\ st'[p].error = SaveError
            /\ contents' = contents
      ]_vars

\* the lecture lookup raised after the notes and flashcards records were inserted
C12_Witness ==
    \E p \in Procs :
        /\ pc[p] = END
        /\ PersistFailed(p)
        /\ st[p].error = SaveError
        /\ RecordsOf(st[p].lecture_id, "notes", run[p]) # {}
        /\ RecordsOf(st[p].lecture_id, "flashcards", run[p]) # {}
        /\ Truthy(st[p].assignment) /\ Unwritten(p) = {}

----------------------------------------------------------------------------
(* C13: the inserts of the persistence stage are independent: every slot
   that holds content is inserted whether or not another insert raised, so
   when a run has ended at most one such slot (the one whose insert raised)
   is without a record of the run. *)
C13_InsertsAreIndependent ==
    \A p \in Procs :
        pc[p] = END => Cardinality(Unwritten(p)) <= 1

----------------------------------------------------------------------------
(* Shorthands for concurrent requests *)

\* the handler is inside the workflow: at one of its five nodes
InPipeline(p) == NodeOf(pc[p]) \in Range(StageOrder)

\* the positions of the content records of a lecture
RecordsOfLecture(l) == {i \in 1..Len(contents) : contents[i].lecture_id = l}

----------------------------------------------------------------------------
(* C14: two handlers are never inside the workflow for the same lecture at
   the same time. *)
C14_AtMostOneRunPerLecture ==
    \A p, q \in Procs :
        (p # q /\ InPipeline(p) /\ InPipeline(q)) =>
            st[p].lecture_id # st[q].lecture_id

----------------------------------------------------------------------------
(* C15: while the latest answer of a handler is the 204 of a completed
   delete_lecture, the store holds no content record of the lecture. *)
C15_NoRecordsAfterDelete ==
    \A l \in LectureIds :
        (\E p \in Procs : resp[p] = "204") => RecordsOfLecture(l) = {}


----------------------------------------------------------------------------
(* Shorthands for the vector store *)

\* the records a course's collection holds in cols (none when it does not exist)
ColIn(cols, course_id) ==
    LET name == get_collection_name(course_id) IN
    IF name \in DOMAIN cols THEN cols[name] ELSE <<>>

\* the ids the latest search returned, in order
ResultIds == [j \in 1..Len(last.results) |-> last.results[j].id]

\* position of an id in a collection: its rank in the order of insertion
PosIn(col, id) == CHOOSE i \in 1..Len(col) : col[i].id = id

\* the positions of the records of col whose text is the query
SameText(col, query) == {i \in 1..Len(col) : col[i].document = query}

----------------------------------------------------------------------------
(* C16: a search never returns an id that was deleted from the course's
   collection and has not been added since; and a delete_documents call does
   not raise, removes exactly the records of the given ids from the course's
   collection, keeps its other records in their order, and leaves every other
   collection as it was, whether or not the collection held the ids. *)
C16_DeletedIdsNotFound ==
    /\ [](last.op = "search_documents" =>
             Range(ResultIds) \cap DeletedIn(get_collection_name(last.course_id)) = {})
    /\ [][last'.op = "delete_documents" =>
             LET name == get_collection_name(last'.course_id)
                 before == ColIn(collections, last'.course_id)
                 after == ColIn(collections', last'.course_id)
             IN /\ ~last'.raised
                /\ after = SelectSeq(before, LAMBDA rec : rec.id \notin Range(last'.ids))
                /\ \A other \in DOMAIN collections \ {name} :
                      /\ other \in DOMAIN collections'
                      /\ collections'[other] = collections[other]
      ]_vars

\* a search that returns a record of a collection from which ids were deleted
C16_Witness ==
    /\ last.op = "search_documents"
    /\ DeletedIn(get_collection_name(last.course_id)) # {}
    /\ Len(last.results) > 0
    /\ Len(ColIn(collections, last.course_id)) > Len(last.results)

----------------------------------------------------------------------------
(* C17: a search returns at most n_results records of the course's
   collection, none farther from the query than a record it leaves out, in
   non-decreasing distance, and records at equal distance in the order of
   their insertion. *)
C17_ClosestFirstTiesByInsertion ==
    last.op = "search_documents" =>
        LET col == ColIn(collections, last.course_id)
            res == last.results
            q == generate_embedding(last.query)
        IN /\ Len(res) <= last.n_results
           /\ Range(ResultIds) \subseteq IdsOf(col)
           /\ \A j \in 1..(Len(res) - 1) : res[j].distance <= res[j + 1].distance
           /\ \A i \in 1..Len(col) :
                 col[i].id \notin Range(ResultIds) =>
                    \A j \in 1..Len(res) :
                        res[j].distance <= SquaredL2(q, col[i].embedding)
           /\ \A j, k \in 1..Len(res) :
                 (j < k /\ res[j].distance = res[k].distance) =>
                    PosIn(col, res[j].id) < PosIn(col, res[k].id)

----------------------------------------------------------------------------
(* C18 as stated: a search whose query is the text of a document of the
   collection returns that document's id. *)
C18_SelfRetrieval ==
    last.op = "search_documents" =>
        LET col == ColIn(collections, last.course_id) IN
        \A i \in SameText(col, last.query) : col[i].id \in Range(ResultIds)

(* C18 as amended: the first min(n_results, m) results of a search are
   records whose text is the query, at distance 0, where m is the number of
   records of the collection with that text; the id of every such record is
   returned when m <= n_results (when m > n_results only n_results of them
   are). *)
C18_SelfRetrievalUpToDuplicates ==
    last.op = "search_documents" =>
        LET col == ColIn(collections, last.course_id)
            m == Cardinality(SameText(col, last.query))
            k == IF m < last.n_results THEN m ELSE last.n_results
        IN /\ Len(last.results) >= k
           /\ \A j \in 1..k : /\ last.results[j].document = last.query
                              /\ last.results[j].distance = 0
           /\ m <= last.n_results =>
                 \A i \in SameText(col, last.query) : col[i].id \in Range(ResultIds)

\* two of three records have the query's text and both are returned
C18_Witness ==
    /\ last.op = "search_documents"
    /\ last.n_results = 2
    /\ LET col == ColIn(collections, last.course_id) IN
       /\ Len(col) = 3
       /\ Cardinality(SameText(col, last.query)) = 2
       /\ \A i \in SameText(col, last.query) : col[i].id \in Range(ResultIds)

----------------------------------------------------------------------------
(* C19: when add_documents has returned, the course's collection holds under
   every id of the call the document passed with it and that document's
   vector, whether or not the id was there before. *)
C19_AddReplacesExisting ==
    (last.op = "add_documents" /\ ~last.raised /\ Len(last.documents) > 0) =>
        LET col == ColIn(collections, last.course_id) IN
        \A i \in 1..Len(last.ids) :
            \E k \in 1..Len(col) :
                /\ col[k].id = last.ids[i]
                /\ col[k].document = last.documents[i]
                /\ col[k].embedding = Encode(last.documents[i])

----------------------------------------------------------------------------
(* C20 as stated: two distinct course ids, whatever their length and
   characters, are never given the same collection name. *)
C20_NamesCollisionFree ==
    \A c1, c2 \in DOMAIN named : c1 # c2 => named[c1] # named[c2]

\* a course id of at most NameLimit characters without an underscore
PlainId(course_id) ==
    /\ Len(course_id) <= NameLimit
    /\ \A i \in 1..Len(course_id) : course_id[i] # "_"

(* C20 as amended: a course id is always given the same name, and two
   distinct course ids of at most 50 characters that contain no underscore
   (as the ids of stored courses) are given distinct names; ids that differ
   only in "-" against "_", or only after the 50th character, share one. *)
C20_PlainIdsCollisionFree ==
    /\ \A c \in DOMAIN named : named[c] = get_collection_name(c)
    /\ \A c1, c2 \in DOMAIN named :
          (c1 # c2 /\ PlainId(c1) /\ PlainId(c2)) => named[c1] # named[c2]
    /\ \A c1, c2 \in DOMAIN named :
          ( /\ Len(c1) = Len(c2)
            /\ \A i \in 1..Len(c1) :
                  i <= NameLimit =>
                     \/ c1[i] = c2[i]
                     \/ {c1[i], c2[i]} = {"-", "_"} ) => named[c1] = named[c2]

\* plain ids with hyphens in different places, and one of exactly 50
\* characters, have been named
C20_Witness ==
    /\ {<<"c", "-", "1">>, <<"c", "1", "-">>, Pad(NameLimit, "a"),
        Pad(NameLimit - 1, "a") \o <<"-">>} \subseteq DOMAIN named
    /\ Cardinality(DOMAIN collections) >= 4

----------------------------------------------------------------------------
(* Shorthands for chunk_text *)

Blank(s) == \A i \in 1..Len(s) : s[i] \in Whitespace

\* the chunks joined in order, each but the first without its first
\* `overlap` characters
RECURSIVE JoinRest(_, _)
JoinRest(chunks, overlap) ==
    IF Len(chunks) = 0 THEN <<>>
    ELSE SubSeq(Head(chunks), overlap + 1, Len(Head(chunks)))
             \o JoinRest(Tail(chunks), overlap)

Rebuild(chunks, overlap) ==
    IF Len(chunks) = 0 THEN <<>> ELSE Head(chunks) \o JoinRest(Tail(chunks), overlap)

NotBlank(c) == ~Blank(c)

\* the windows cut so far, each with its surrounding white space removed
StrippedWindows ==
    [i \in 1..Len(chunking.windows) |->
        strip(Slice(chunking.text, chunking.windows[i][1], chunking.windows[i][2]))]

\* the cut position the rule gives for the window that starts at start
RuleEnd(text, start, chunk_size) ==
    LET raw == start + chunk_size
        half == start + chunk_size \div 2
        paras == {i \in start..(raw - 2) : SubSeq(text, i + 1, i + 2) = ParagraphBreak}
        sents == {i \in half..(raw - 1) : text[i + 1] \in {".", "!", "?"}}
    IN IF paras # {} /\ Largest(paras) > half THEN Largest(paras)
       ELSE IF sents # {} THEN Largest(sents) + 1
       ELSE raw

----------------------------------------------------------------------------
(* C21: chunk_text with the default arguments never puts an empty or
   whitespace-only chunk in its result, and it returns the empty list when
   the text is empty or consists of white space only. *)
C21_NoBlankChunk ==
    /\ \A i \in 1..Len(chunking.chunks) : ~Blank(chunking.chunks[i])
    /\ chunking.returned /\ Blank(chunking.text) => chunking.chunks = <<>>

\* a call has returned chunks after dropping a window of white space only
C21_Witness ==
    /\ chunking.returned
    /\ Len(chunking.chunks) >= 1
    /\ \E i \in 1..Len(chunking.windows) : Blank(StrippedWindows[i])

----------------------------------------------------------------------------
(* C22: for every non-empty text, joining the returned chunks in order, each
   but the first without the `overlap` characters it shares with its
   predecessor, yields the text. *)
C22_ChunksRebuildText ==
    chunking.returned /\ Len(chunking.text) > 0
        => Rebuild(chunking.chunks, chunking.overlap) = chunking.text

(* C22, amended: the windows cover the text without gaps (the first starts at
   position 0, each next one starts `overlap` characters before the end of
   its predecessor, the last one reaches the end of the text), and the
   chunks are the windows with their surrounding white space removed, the
   windows of white space only left out. *)
C22_WindowsCoverText ==
    LET w == chunking.windows IN
    /\ \A i \in 1..Len(w) : w[i][1] < w[i][2]
    /\ Len(w) > 0 => w[1][1] = 0
    /\ \A i \in 1..(Len(w) - 1) : w[i + 1][1] = w[i][2] - chunking.overlap
    /\ chunking.returned /\ Len(chunking.text) > 0
           => w[Len(w)][2] >= Len(chunking.text)
    /\ chunking.chunks = SelectSeq(StrippedWindows, NotBlank)

\* a call has returned two chunks or more that do not rebuild the text
C22_Witness ==
    /\ chunking.returned
    /\ Len(chunking.chunks) >= 2
    /\ Rebuild(chunking.chunks, chunking.overlap) # chunking.text

----------------------------------------------------------------------------
(* C23: every window that does not reach the end of the text is cut at the
   last paragraph break in the window if that lies past the half-point,
   otherwise just after the sentence mark nearest to the provisional
   boundary among those from the half-point on, otherwise at the raw
   boundary start + chunk_size. *)
C23_CutByRule ==
    \A i \in 1..Len(chunking.windows) :
        LET start == chunking.windows[i][1] IN
        start + chunking.chunk_size < Len(chunking.text)
            => chunking.windows[i][2]
                   = RuleEnd(chunking.text, start, chunking.chunk_size)

----------------------------------------------------------------------------
(* C24: every GeneratedContent record is created with version 1 and
   is_edited false; a stored record changes only in the saving step of
   update_content, which raises its version by exactly 1 and sets is_edited;
   no step of a generation or regeneration run changes or removes a stored
   record.  In every state version >= 1, and is_edited holds exactly when
   version > 1. *)
C24_OnlyEditsChangeRecords ==
    /\ [](\A i \in 1..Len(contents) :
             /\ contents[i].version >= 1
             /\ contents[i].is_edited <=> contents[i].version > 1)
    /\ [][/\ Len(contents') >= Len(contents)
          /\ \A i \in 1..Len(contents') :
                IF i > Len(contents)
                THEN contents'[i].version = 1 /\ ~contents'[i].is_edited
                ELSE contents'[i] # contents[i] =>
                        /\ edit.position = "save" /\ edit.index = i
                        /\ Locals(Client)' = Locals(Client)
                        /\ contents'[i].version = contents[i].version + 1
                        /\ contents'[i].is_edited
         ]_vars

\* a record was edited twice, and a later regeneration wrote a second
\* record of its lecture and type beside it
C24_Witness ==
    \E i, j \in 1..Len(contents) :
        /\ i < j
        /\ contents[i].version = 3 /\ contents[i].is_edited
        /\ contents[i].content = "edited"
        /\ contents[j].lecture_id = contents[i].lecture_id
        /\ contents[j].content_type = contents[i].content_type
        /\ contents[j].version = 1 /\ ~contents[j].is_edited

----------------------------------------------------------------------------
(* C25: when extraction, chunking or indexing has raised in an
   upload_material request, the request returns normally (201) and the
   stored material is FAILED with processing_error set; after the handler
   has returned, the stored status is COMPLETED or FAILED, not PROCESSING. *)
C25_ProcessingFailureReturns ==
    upload.position = "idle" /\ upload.material > 0 =>
        LET stored == materials[upload.material] IN
        /\ upload.raised \in {"process", "index"} =>
              /\ upload.resp = "201"
              /\ stored.processing_status = FAILED
              /\ stored.processing_error # None
        /\ upload.resp = "201" => stored.processing_status \in {COMPLETED, FAILED}

(* C25, amended: the same, provided the save of the except clause succeeds;
   when that save raises, the request fails (500) and the stored status is
   still PROCESSING. *)
C25_ProcessingFailureReturnsIfSaved ==
    upload.position = "idle" /\ upload.material > 0 =>
        LET stored == materials[upload.material] IN
        /\ (upload.raised \in {"process", "index"} /\ ~upload.unsaved) =>
              /\ upload.resp = "201"
              /\ stored.processing_status = FAILED
              /\ stored.processing_error # None
        /\ upload.resp = "201" => stored.processing_status \in {COMPLETED, FAILED}
        /\ upload.unsaved =>
              upload.resp = "500" /\ stored.processing_status = PROCESSING

\* the second upload returned normally after its indexing had raised
C25_Witness ==
    /\ upload.position = "idle"
    /\ upload.material = 2
    /\ upload.raised = "index"
    /\ upload.resp = "201"
    /\ materials[2].processing_status = FAILED
    /\ materials[1].processing_status = COMPLETED
    /\ Len(materials[1].embedding_ids) = 2

----------------------------------------------------------------------------
(* C26: a generation stage whose type is not among the request's
   content_types makes no model call and hands the state on unchanged: its
   step leaves the state (slots, completed_types, error, context), the call
   record and the attempt counter as they were and moves on along the
   graph's edge. *)
C26_UnrequestedStageIsNoOp ==
    [][\A p \in Procs :
         (pc[p] \in GenNodes /\ TypeOfNode(pc[p]) \notin st[p].content_types) =>
            /\ st'[p] = st[p]
            /\ calls'[p] = calls[p]
            /\ attempts[p] = 0 /\ attempts'[p] = 0
            /\ pc'[p] = Edge(pc[p])
      ]_vars

\* the assignment stage was skipped after the notes stage had failed
C26_Witness ==
    \E p \in Procs :
        /\ pc[p] = "generate_flashcards"
        /\ "assignment" \notin st[p].content_types
        /\ calls[p]["assignment"] = "none"
        /\ st[p].assignment = None
        /\ st[p].error = ErrorOf("notes")

----------------------------------------------------------------------------
(* C27: for chunk_size > 0 and 0 <= overlap < chunk_size the window start
   strictly increases from one iteration of the loop to the next. *)
C27_StartIncreases ==
    \A i \in 1..(Len(chunking.windows) - 1) :
        chunking.windows[i + 1][1] > chunking.windows[i][1]

----------------------------------------------------------------------------
(* C28: when generate_content finishes after the workflow has returned, the
   lecture's stored generation_status is COMPLETED if the run's final error
   is null and FAILED otherwise, never GENERATING; a COMPLETED written by
   the persistence stage of a run that ended with an error is overwritten. *)
C28_FinishSetsStatus ==
    [][\A p \in Procs :
         (pc[p] = END /\ pc'[p] = "idle") =>
            LET stored == lectures'[req[p].lecture_id] IN
            /\ st[p].error = None =>
                  stored.generation_status = COMPLETED /\ resp'[p] = "200"
            /\ st[p].error # None =>
                  stored.generation_status = FAILED /\ resp'[p] = "500"
      ]_vars

\* a request has ended with FAILED after a run whose notes stage failed and
\* whose persistence stage wrote a flashcards record and the status COMPLETED
C28_Witness ==
    \E p \in Procs :
        /\ pc[p] = "idle"
        /\ resp[p] = "500"
        /\ lectures["L1"].generation_status = FAILED
        /\ lectures["L1"].generation_error = ErrorOf("notes")
        /\ \E i \in 1..Len(contents) :
              contents[i].content_type = "flashcards" /\ contents[i].run = nruns

----------------------------------------------------------------------------
(* C29: at every point of a run, completed_types has no duplicates, holds
   requested types only, lists them in stage order, and holds a type exactly
   when the type's slot in the state is non-null. *)
C29_CompletedTypesMatchSlots ==
    \A p \in Procs :
        Running(p) =>
            LET done == st[p].completed_types IN
            /\ Cardinality(Range(done)) = Len(done)
            /\ Range(done) \subseteq st[p].content_types
            /\ \A i, j \in 1..Len(done) : i < j => Rank(done[i]) < Rank(done[j])
            /\ \A t \in ContentTypes : t \in Range(done) <=> st[p][t] # None

----------------------------------------------------------------------------
(* C30: between two requests, lecture.embedding_ids lists every transcript
   chunk id of the lecture that the course's collection holds; after
   delete_lecture has completed, the collection holds no document whose id
   was indexed for the lecture's transcript. *)
C30_NoTranscriptChunkAfterDelete ==
    \A l \in LectureIds :
        (pc[Client] = "idle" /\ transcribing.position = "idle") =>
            LET held == {id \in IdsOf(ColIn(collections, Lecture(TRUE).course_id)) :
                            id[1] = l /\ id[2] = "transcript"}
            IN IF lectures[l].present
               THEN held \subseteq Range(lectures[l].embedding_ids)
               ELSE held = {}

====
